---- MODULE Spec2Model ----
(***************************************************************************)
(* KUR File Manager (src/app.py): a Streamlit page that lists the shared   *)
(* Drive folders, runs a full-text search, and previews or downloads the   *)
(* matching files.  One action of the model is one run of the script,      *)
(* started by one user interaction.  Python strings whose characters the   *)
(* code inspects (MIME types, file names) are tuples of one-character      *)
(* strings; message texts are tuples of their pieces.                      *)
(***************************************************************************)
EXTENDS Integers, Sequences, FiniteSets, TLC

VARIABLES
    secret,           \* "gcp_service_account" in st.secrets: "absent" or "present"
    credFile,         \* credentials.json on disk:            "absent" or "present"
    search_results,   \* st.session_state.search_results
    selected_option,  \* the sidebar selectbox's widget state
    builds,           \* number of build('drive', 'v3', ...) calls so far in the process
    page              \* what the last run of the script did and displayed

vars == <<secret, credFile, search_results, selected_option, builds, page>>

----------------------------------------------------------------------------
(* Bounds of the model *)

MaxResults == 2      \* longest list the provider returns to a search (pageSize is 15)
MaxChunks == 2       \* most chunks of one download
MaxBuilds == 4       \* no run starts once the process has built this many service handles

----------------------------------------------------------------------------
(* Strings *)

\* Python `t in s` on strings
Contains(s, t) ==
    \/ t = <<>>
    \/ \E i \in 1..(Len(s) - Len(t) + 1) :
          s[i] = t[1] /\ SubSeq(s, i, i + Len(t) - 1) = t

\* Python s.endswith(t)
EndsWith(s, t) ==
    /\ Len(s) >= Len(t)
    /\ SubSeq(s, Len(s) - Len(t) + 1, Len(s)) = t

\* the element of a one-element set; The({e(v) : v \in {x}}) is e(x) with x
\* computed once
The(S) == CHOOSE x \in S : TRUE

\* a message text, given as its pieces, is a non-empty string
NonEmptyText(m) == \E i \in 1..Len(m) : m[i] # ""

NATIVE == <<"a","p","p","l","i","c","a","t","i","o","n","/","v","n","d",".","g","o","o","g","l","e","-","a","p","p","s">>
kw_spreadsheet == <<"s","p","r","e","a","d","s","h","e","e","t">>
kw_document == <<"d","o","c","u","m","e","n","t">>
kw_image == <<"i","m","a","g","e">>
kw_pdf == <<"p","d","f">>
kw_excel == <<"e","x","c","e","l">>
kw_word == <<"w","o","r","d">>
kw_text_plain == <<"t","e","x","t","/","p","l","a","i","n">>

\* the export targets of lines 41, 44 and 47; the code never looks inside them
XLSX_TARGET == "application/vnd.openxmlformats-officedocument.spreadsheetml.sheet"
PDF_TARGET == "application/pdf"

e_pdf == <<".","p","d","f">>
e_xlsx == <<".","x","l","s","x">>
e_docx == <<".","d","o","c","x">>
e_txt == <<".","t","x","t">>
e_jpg == <<".","j","p","g">>
e_bin == <<".","b","i","n">>

\* MIME types the provider really issues
ms_excel == <<"a","p","p","l","i","c","a","t","i","o","n","/","v","n","d",".","m","s","-","e","x","c","e","l">>
pdf_mime == <<"a","p","p","l","i","c","a","t","i","o","n","/","p","d","f">>
xlsx_mime == <<"a","p","p","l","i","c","a","t","i","o","n","/","v","n","d",".","o","p","e","n","x","m","l","f","o","r","m","a","t","s","-","o","f","f","i","c","e","d","o","c","u","m","e","n","t",".","s","p","r","e","a","d","s","h","e","e","t","m","l",".","s","h","e","e","t">>
app_zip == <<"a","p","p","l","i","c","a","t","i","o","n","/","z","i","p">>
image_jpeg == <<"i","m","a","g","e","/","j","p","e","g">>
docx_mime == <<"a","p","p","l","i","c","a","t","i","o","n","/","v","n","d",".","o","p","e","n","x","m","l","f","o","r","m","a","t","s","-","o","f","f","i","c","e","d","o","c","u","m","e","n","t",".","w","o","r","d","p","r","o","c","e","s","s","i","n","g","m","l",".","d","o","c","u","m","e","n","t">>
gsheet_mime == NATIVE \o <<".">> \o kw_spreadsheet
gdoc_mime == NATIVE \o <<".">> \o kw_document
gdrawing_mime == NATIVE \o <<".","d","r","a","w","i","n","g">>

RealMimes ==
    {ms_excel, app_zip, image_jpeg, docx_mime, gsheet_mime, gdoc_mime,
     gdrawing_mime, pdf_mime, kw_text_plain, xlsx_mime}

SeqsUpTo(S, n) == UNION {[1..k -> S] : k \in 0..n}

\* generated MIME types: every token and every concatenation of two tokens, so
\* that each substring rule meets each other rule on either side
MimeTokens ==
    {NATIVE \o <<".">>, kw_spreadsheet, kw_document, kw_image, kw_pdf, kw_excel,
     kw_word, kw_text_plain, <<"z","i","p">>, <<"a","p","p","/">>}

MimeTypes ==
    {a \o b : a, b \in MimeTokens \cup {<<>>}} \cup RealMimes

\* generated file names: a stem followed by no, one or two extensions, and the
\* bare extensions
Extensions == {e_pdf, e_xlsx, e_docx, e_txt, e_jpg, e_bin}

Names ==
    {<<"r">> \o a \o b : a, b \in Extensions \cup {<<>>}} \cup Extensions

----------------------------------------------------------------------------
(* Values *)

NoneId == "None"                 \* Python None where an identifier is expected

NoneContent == [kind |-> "None", text |-> <<>>, data |-> <<>>]
StrContent(t) == [kind |-> "str", text |-> t, data |-> <<>>]
BytesContent(d) == [kind |-> "bytes", text |-> <<>>, data |-> d]

\* the requests the script sends to the Drive API
ListCall(q, pageSize, fields) ==
    [api |-> "list", fileId |-> NoneId, mimeType |-> "", q |-> q,
     pageSize |-> pageSize, fields |-> fields]
GetMediaCall(file_id) ==
    [api |-> "get_media", fileId |-> file_id, mimeType |-> "", q |-> <<>>,
     pageSize |-> 0, fields |-> ""]
ExportMediaCall(file_id, target) ==
    [api |-> "export_media", fileId |-> file_id, mimeType |-> target, q |-> <<>>,
     pageSize |-> 0, fields |-> ""]

\* the k-th chunk the provider serves for a request
RemoteChunk(request, k) == <<request.api, request.fileId, request.mimeType, k>>

\* texts of the exceptions the Drive client raises
ExcTexts == {"", "HttpError 500"}

----------------------------------------------------------------------------
(* get_drive_service, src/app.py 16-29 *)

ServiceResult(res, built, usedSecret, fileRead, errs) ==
    [res |-> res, built |-> built, usedSecret |-> usedSecret,
     fileRead |-> fileRead, errs |-> errs]

\* the two sources tried in the other order: credentials.json first
get_drive_service_FileFirst ==
    IF credFile = "present"
    THEN ServiceResult("handle", 1, FALSE, TRUE, <<>>)
    ELSE IF secret = "present"
    THEN ServiceResult("handle", 1, TRUE, TRUE, <<>>)
    ELSE ServiceResult("none", 0, FALSE, TRUE,
                       << <<"credentials.json not found!">> >>)

\* res is "handle" (a service object built by line 29) or "none" (line 28)
get_drive_service ==
    IF secret = "present"
    THEN \* lines 19-21, then line 29
         ServiceResult("handle", 1, TRUE, FALSE, <<>>)
    ELSE \* lines 23-28: the file is opened; FileNotFoundError is reported
         IF credFile = "absent"
         THEN ServiceResult("none", 0, FALSE, TRUE,
                            << <<"credentials.json not found!">> >>)
         ELSE ServiceResult("handle", 1, FALSE, TRUE, <<>>)

----------------------------------------------------------------------------
(* get_file_content, src/app.py 32-70 *)

\* lines 39-48: the export request and the category of a Google-native file
NativeExport(file_id, mime_type) ==
    IF Contains(mime_type, kw_spreadsheet)
    THEN [request |-> ExportMediaCall(file_id, XLSX_TARGET), dtype |-> "excel"]
    ELSE IF Contains(mime_type, kw_document)
    THEN [request |-> ExportMediaCall(file_id, PDF_TARGET), dtype |-> "pdf"]
    ELSE [request |-> ExportMediaCall(file_id, PDF_TARGET), dtype |-> "pdf"]

\* the pdf rule tried before the image rule
RegularCategory_PdfFirst(mime_type) ==
    IF Contains(mime_type, kw_pdf) THEN "pdf"
    ELSE IF Contains(mime_type, kw_image) THEN "image"
    ELSE IF Contains(mime_type, kw_spreadsheet) \/ Contains(mime_type, kw_excel)
    THEN "excel"
    ELSE IF Contains(mime_type, kw_word) \/ Contains(mime_type, kw_document)
    THEN "word"
    ELSE IF Contains(mime_type, kw_text_plain) THEN "text"
    ELSE "other"

\* lines 53-58: the category of a regular file
RegularCategory(mime_type) ==
    IF Contains(mime_type, kw_image) THEN "image"
    ELSE IF Contains(mime_type, kw_pdf) THEN "pdf"
    ELSE IF Contains(mime_type, kw_spreadsheet) \/ Contains(mime_type, kw_excel)
    THEN "excel"
    ELSE IF Contains(mime_type, kw_word) \/ Contains(mime_type, kw_document)
    THEN "word"
    ELSE IF Contains(mime_type, kw_text_plain) THEN "text"
    ELSE "other"

\* the native branch taken only when no generic rule matches
Dispatch_GenericFirst(file_id, mime_type) ==
    IF Contains(mime_type, NATIVE) /\ RegularCategory(mime_type) = "other"
    THEN NativeExport(file_id, mime_type)
    ELSE [request |-> GetMediaCall(file_id), dtype |-> RegularCategory(mime_type)]

\* lines 39-58: the branch on the native-format marker
Dispatch(file_id, mime_type) ==
    IF Contains(mime_type, NATIVE)
    THEN NativeExport(file_id, mime_type)
    ELSE [request |-> GetMediaCall(file_id), dtype |-> RegularCategory(mime_type)]

\* lines 61-65: next_chunk until done; net.failAt = k makes the k-th call raise
RECURSIVE next_chunks(_, _, _, _)
next_chunks(request, fh, k, net) ==
    IF net.failAt = k
    THEN [ok |-> FALSE, data |-> fh]
    ELSE LET fh2 == Append(fh, RemoteChunk(request, k))
         IN  IF k >= net.nChunks
             THEN [ok |-> TRUE, data |-> fh2]
             ELSE next_chunks(request, fh2, k + 1, net)

FetchResult(content, dtype, calls, svc) ==
    [content |-> content, dtype |-> dtype, calls |-> calls,
     built |-> svc.built, usedSecret |-> svc.usedSecret, fileRead |-> svc.fileRead,
     errs |-> svc.errs]

\* net: how the provider answers the fetch: reqFail (building the request
\* raises), nChunks (the next_chunk calls made), failAt (the call that raises,
\* 0 for none: a transfer ends at the call that raises), exc (the exception's text)
get_file_content(file_id, mime_type, net) ==
    The({
        LET dl == next_chunks(d.request, <<>>, 1, net)
            failure == StrContent(<<"Error: ", net.exc>>)
        IN  CASE svc.res = "none" -> FetchResult(NoneContent, "error", <<>>, svc)
              [] net.reqFail -> FetchResult(failure, "error", <<>>, svc)
              [] ~dl.ok -> FetchResult(failure, "error", <<d.request>>, svc)
              [] OTHER ->
                    FetchResult(BytesContent(dl.data), d.dtype, <<d.request>>, svc)
        : svc \in {get_drive_service}, d \in {Dispatch(file_id, mime_type)}})

FetchNets ==
    {n \in [reqFail : BOOLEAN, nChunks : 1..MaxChunks, failAt : 0..MaxChunks,
            exc : ExcTexts] :
        /\ n.failAt \in {0, n.nChunks}
        /\ n.reqFail => (n.failAt = 0 /\ n.nChunks = 1)
        /\ (~n.reqFail /\ n.failAt = 0) => n.exc = ""}

----------------------------------------------------------------------------
(* get_shared_folders, src/app.py 73-81 *)

FolderPageSize == 50
SearchPageSize == 15

\* the folder shared with the service account
FolderCatalog == {[id |-> "f1", name |-> "Shared"]}

\* how the provider answers the folder query: ok (FALSE: execute() raises), and
\* files: no folder, or the shared one
FolderNets ==
    {n \in [ok : BOOLEAN, files : {<<>>} \cup {<<f>> : f \in FolderCatalog}] :
        ~n.ok => n.files = <<>>}

\* line 81: {f['name']: f['id'] for f in files}; a later entry replaces an earlier one
FolderMap(files) ==
    [n \in {files[i].name : i \in 1..Len(files)} |->
        LET last == CHOOSE i \in 1..Len(files) :
                        /\ files[i].name = n
                        /\ \A j \in (i + 1)..Len(files) : files[j].name # n
        IN  files[last].id]

FolderQuery ==
    <<"mimeType = 'application/vnd.google-apps.folder' and trashed = false">>

FoldersResult(raised, folders, calls, svc) ==
    [raised |-> raised, folders |-> folders, calls |-> calls,
     built |-> svc.built, usedSecret |-> svc.usedSecret, fileRead |-> svc.fileRead,
     errs |-> svc.errs]

get_shared_folders(net) ==
    LET svc == get_drive_service
        call == ListCall(FolderQuery, FolderPageSize, "files(id, name)")
    IN  CASE svc.res = "none" -> FoldersResult(FALSE, <<>>, <<>>, svc)
          [] ~net.ok -> FoldersResult(TRUE, <<>>, <<call>>, svc)
          [] OTHER -> FoldersResult(FALSE, FolderMap(net.files), <<call>>, svc)

----------------------------------------------------------------------------
(* search_drive, src/app.py 84-101 *)

Descriptor(id, name, mimeType) == [id |-> id, name |-> name, mimeType |-> mimeType]

\* the files the shared account holds
Catalog ==
    {Descriptor("d1", <<"r">> \o e_pdf, pdf_mime),
     Descriptor("d2", <<"s">>, gsheet_mime)}

NoDuplicateIds(files) ==
    \A i, j \in 1..Len(files) : files[i].id = files[j].id => i = j

\* how the provider answers a search: ok (FALSE: execute() raises), files, exc
SearchNets ==
    {n \in [ok : BOOLEAN, files : SeqsUpTo(Catalog, MaxResults), exc : ExcTexts] :
        /\ ~n.ok => n.files = <<>>
        /\ n.ok => n.exc = ""
        /\ NoDuplicateIds(n.files)}

SearchTerms == {"", "Invoice"}

\* lines 88-90
SearchQuery(query_text, specific_folder_id) ==
    <<"fullText contains '", query_text, "' and trashed = false">>
    \o (IF specific_folder_id # NoneId
        THEN <<" and '", specific_folder_id, "' in parents">>
        ELSE <<>>)

SearchResult(files, calls, listFailed, errs, svc) ==
    [files |-> files, calls |-> calls, listFailed |-> listFailed,
     built |-> svc.built, usedSecret |-> svc.usedSecret, fileRead |-> svc.fileRead,
     errs |-> svc.errs \o errs]

SearchCall(query_text, specific_folder_id) ==
    ListCall(SearchQuery(query_text, specific_folder_id), SearchPageSize,
             "files(id, name, mimeType)")

\* the except branch dropped: the failure is swallowed without st.error
search_drive_Silent(query_text, specific_folder_id, net) ==
    LET svc == get_drive_service
        call == SearchCall(query_text, specific_folder_id)
    IN  CASE svc.res = "none" -> SearchResult(<<>>, <<>>, FALSE, <<>>, svc)
          [] ~net.ok -> SearchResult(<<>>, <<call>>, TRUE, <<>>, svc)
          [] OTHER -> SearchResult(net.files, <<call>>, FALSE, <<>>, svc)

search_drive(query_text, specific_folder_id, net) ==
    LET svc == get_drive_service
        call == SearchCall(query_text, specific_folder_id)
    IN  CASE svc.res = "none" -> SearchResult(<<>>, <<>>, FALSE, <<>>, svc)
          [] ~net.ok ->
                SearchResult(<<>>, <<call>>, TRUE, << <<"API Error: ", net.exc>> >>,
                             svc)
          [] OTHER -> SearchResult(net.files, <<call>>, FALSE, <<>>, svc)

----------------------------------------------------------------------------
(* The script, src/app.py 104-208: one run renders one page *)

AllFolders == "All Shared Folders"

Msg(level, text) == [level |-> level, text |-> text]

RECURSIVE Msgs(_, _)
Msgs(level, texts) ==
    IF texts = <<>> THEN <<>>
    ELSE <<Msg(level, Head(texts))>> \o Msgs(level, Tail(texts))

\* st.session_state.search_results: None, or the list search_drive returned
NoneResults == [isNone |-> TRUE, files |-> <<>>]
ListResults(files) == [isNone |-> FALSE, files |-> files]
Truthy(results) == ~results.isNone /\ Len(results.files) > 0

NoFetch == [called |-> FALSE, content |-> NoneContent, dtype |-> ""]
Fetched(r) == [called |-> TRUE, content |-> r.content, dtype |-> r.dtype]
NoFile == [id |-> "", name |-> <<>>, mimeType |-> <<>>]
NoSave == [offered |-> FALSE, file_name |-> <<>>, data |-> NoneContent, mime |-> <<>>]
NoPreview == [widget |-> "none", content |-> NoneContent]

\* a run that has drawn nothing yet.  Besides what the page shows, the record
\* keeps what the run did: the interaction that started it (click), the
\* credential sources as the run found them, the remote calls in order, the
\* provider's answer to the search (provided) and the list held before it
\* (previous), the row acted on (file) and what get_file_content gave (fetch).
BlankPage(click) ==
    [status |-> "ok", click |-> click, secretPresent |-> secret = "present",
     fileFound |-> credFile = "present",
     sidebar |-> "none", options |-> {}, selected |-> AllFolders, target |-> NoneId,
     folderListFailed |-> FALSE, searchBox |-> FALSE, searched |-> FALSE,
     searchListFailed |-> FALSE, provided |-> <<>>, returned |-> <<>>,
     previous |-> NoneResults, messages |-> <<>>, calls |-> <<>>, shown |-> 0,
     file |-> NoFile, fetch |-> NoFetch, save |-> NoSave, preview |-> NoPreview,
     built |-> 0, usedSecret |-> FALSE, fileRead |-> FALSE]

\* what a helper's call adds to the page: its remote calls, its st.error
\* messages, the handles it built, the credential sources it touched
Effects(p, r) ==
    [p EXCEPT !.calls = @ \o r.calls,
              !.messages = @ \o Msgs("error", r.errs),
              !.built = @ + r.built,
              !.usedSecret = @ \/ r.usedSecret,
              !.fileRead = @ \/ r.fileRead]

Crashed(p) == [p EXCEPT !.status = "crashed"]

\* lines 108-117
Sidebar(p, selected, net) ==
    The({
        LET p1 == Effects(p, r)
            available_folders == r.folders
            folder_options == {AllFolders} \cup DOMAIN available_folders
            shown_option == IF selected \in folder_options THEN selected ELSE AllFolders
        IN  IF r.raised
            THEN Crashed([p1 EXCEPT !.folderListFailed = r.calls # <<>>])
            ELSE IF DOMAIN available_folders # {}
            THEN [p1 EXCEPT !.sidebar = "selectbox",
                            !.options = folder_options,
                            !.selected = shown_option,
                            !.target = IF shown_option \in DOMAIN available_folders
                                       THEN available_folders[shown_option]
                                       ELSE NoneId]
            ELSE [p1 EXCEPT !.sidebar = "warning",
                            !.messages =
                                Append(@, Msg("warning", <<"No shared folders found.">>)),
                            !.target = NoneId]
        : r \in {get_shared_folders(net)}})

\* the new rows appended to the held list instead of replacing it
SearchHandling_Append(p, results, search_btn, search_term, net) ==
    LET p1 == [p EXCEPT !.searchBox = TRUE]
    IN  IF search_btn /\ search_term # ""
        THEN The({
                 [page |-> [Effects(p1, r) EXCEPT !.searched = TRUE,
                                                  !.searchListFailed = r.listFailed,
                                                  !.provided = net.files,
                                                  !.returned = r.files,
                                                  !.previous = results],
                  results |-> ListResults(results.files \o r.files)]
                 : r \in {search_drive(search_term, p.target, net)}})
        ELSE [page |-> p1, results |-> results]

\* lines 120-134: the search bar, then the search when the button was clicked
\* with a term; yields the page and the session's result list
SearchHandling(p, results, search_btn, search_term, net) ==
    LET p1 == [p EXCEPT !.searchBox = TRUE]
    IN  IF search_btn /\ search_term # ""
        THEN The({
                 [page |-> [Effects(p1, r) EXCEPT !.searched = TRUE,
                                                  !.searchListFailed = r.listFailed,
                                                  !.provided = net.files,
                                                  !.returned = r.files,
                                                  !.previous = results],
                  results |-> ListResults(r.files)]
                 : r \in {search_drive(search_term, p.target, net)}})
        ELSE [page |-> p1, results |-> results]

\* lines 155-160
Extension(dtype) ==
    IF dtype = "pdf" THEN e_pdf
    ELSE IF dtype = "excel" THEN e_xlsx
    ELSE IF dtype = "word" THEN e_docx
    ELSE IF dtype = "text" THEN e_txt
    ELSE IF dtype = "image" THEN e_jpg
    ELSE e_bin

\* the extension appended whatever the name ends with
FinalName_AlwaysAppend(f_name, ext) == f_name \o ext

\* line 162
FinalName(f_name, ext) ==
    IF ~EndsWith(f_name, ext) THEN f_name \o ext ELSE f_name

\* lines 149-172: "Prepare for Download" clicked on a row
DownloadTab(p, file, net) ==
    The({
        LET p1 == [Effects(p, r) EXCEPT !.file = file, !.fetch = Fetched(r)]
        IN  IF r.dtype # "error"
            THEN [p1 EXCEPT !.save =
                     [offered |-> TRUE,
                      file_name |-> FinalName(file.name, Extension(r.dtype)),
                      data |-> r.content,
                      mime |-> file.mimeType]]
            ELSE [p1 EXCEPT !.messages =
                     Append(@, Msg("error", <<"Download failed.">>))]
        : r \in {get_file_content(file.id, file.mimeType, net)}})

Show(p, widget, content) ==
    [p EXCEPT !.preview = [widget |-> widget, content |-> content]]

Warn(p, text) == [p EXCEPT !.messages = Append(@, Msg("warning", <<text>>))]

\* lines 180-208: the display chosen for a category; parseOk is whether the
\* parser (read_excel, docx.Document, decode) accepts the bytes
RenderPreview(p, content, dtype, parseOk) ==
    IF dtype = "image" THEN Show(p, "image", content)
    ELSE IF dtype = "pdf" THEN Show(p, "pdf_viewer", content)
    ELSE IF dtype = "excel"
    THEN IF parseOk THEN Show(p, "dataframe", content)
         ELSE Warn(p, "Cannot read Excel file.")
    ELSE IF dtype = "word"
    THEN IF parseOk THEN Show(p, "markdown", content)
         ELSE Warn(p, "Cannot read Word document.")
    ELSE IF dtype = "text"
    THEN IF parseOk THEN Show(p, "text_area", content)
         ELSE Warn(p, "Cannot read text file encoding.")
    ELSE [p EXCEPT !.messages =
             Append(@, Msg("info", <<"Preview not available for this file type.">>))]

\* lines 176-208: "Load Preview" clicked on a row
PreviewTab(p, file, net, parseOk) ==
    The({
        LET p1 == [Effects(p, r) EXCEPT !.file = file, !.fetch = Fetched(r)]
        IN  The({RenderPreview(q, r.content, r.dtype, parseOk) : q \in {p1}})
        : r \in {get_file_content(file.id, file.mimeType, net)}})

\* lines 136-208: the result rows; click is the button pressed on row idx
Results(p, results, click, idx, net, parseOk) ==
    IF ~Truthy(results) THEN p
    ELSE The({
             IF click = "download" THEN DownloadTab(p1, results.files[idx], net)
             ELSE IF click = "preview"
             THEN PreviewTab(p1, results.files[idx], net, parseOk)
             ELSE p1
             : p1 \in {[p EXCEPT !.shown = Len(results.files)]}})

\* lines 104-208, top to bottom; an exception a helper lets through ends the run
Script(results, selected, click, idx, search_term, netF, netS, netC, parseOk) ==
    The({
        IF side.status = "crashed" THEN [page |-> side, results |-> results]
        ELSE The({
                 [page |-> Results(srch.page, srch.results, click, idx, netC,
                                   parseOk),
                  results |-> srch.results]
                 : srch \in {SearchHandling(side, results, click = "search",
                                            search_term, netS)}})
        : side \in {Sidebar(BlankPage(click), selected, netF)}})

----------------------------------------------------------------------------
(* The state machine *)

CredStates == {"absent", "present"}

\* answers of the provider to calls a run does not make
IdleSearchNet == [ok |-> TRUE, files |-> <<>>, exc |-> ""]
IdleFetchNet == [reqFail |-> FALSE, nChunks |-> 1, failAt |-> 0, exc |-> ""]

\* before the first run: nothing rendered, the session state empty
NotRendered ==
    [BlankPage("none") EXCEPT !.status = "none", !.secretPresent = FALSE,
                              !.fileFound = FALSE]

Init ==
    /\ secret \in CredStates
    /\ credFile \in CredStates
    /\ search_results = NoneResults
    /\ selected_option = AllFolders
    /\ builds = 0
    /\ page = NotRendered

\* one run of the script
Run(results, selected, click, idx, search_term, netF, netS, netC, parseOk) ==
    /\ builds < MaxBuilds
    /\ \E out \in {Script(results, selected, click, idx, search_term, netF, netS, netC,
                       parseOk)} :
        /\ page' = out.page
        /\ search_results' = out.results
        /\ selected_option' = out.page.selected
        /\ builds' = builds + out.page.built
        /\ UNCHANGED <<secret, credFile>>

\* the page is opened (or reloaded) in the browser: a new session, lines 129-130
PageLoad ==
    \E netF \in FolderNets :
        Run(NoneResults, AllFolders, "open", 0, "", netF, IdleSearchNet, IdleFetchNet,
            TRUE)

\* another entry of the "Search Scope" selectbox is chosen
ChangeScope ==
    /\ page.sidebar = "selectbox"
    /\ \E opt \in page.options \ {selected_option}, netF \in FolderNets :
          Run(search_results, opt, "none", 0, "", netF, IdleSearchNet, IdleFetchNet,
              TRUE)

\* the "Search" button is clicked, the text input holding search_term
SearchClick ==
    /\ page.searchBox
    /\ \E search_term \in SearchTerms, netF \in FolderNets :
       \E netS \in (IF search_term = "" THEN {IdleSearchNet} ELSE SearchNets) :
          Run(search_results, selected_option, "search", 0, search_term, netF, netS,
              IdleFetchNet, TRUE)

\* "Prepare for Download" is clicked on a row of the last page
PrepareDownload ==
    \E idx \in 1..page.shown, netF \in FolderNets, netC \in FetchNets :
        Run(search_results, selected_option, "download", idx, "", netF,
            IdleSearchNet, netC, TRUE)

\* "Load Preview" is clicked on a row of the last page
LoadPreview ==
    \E idx \in 1..page.shown, netF \in FolderNets, netC \in FetchNets :
    \E parseOk \in (IF netC.reqFail \/ netC.failAt # 0 THEN {TRUE} ELSE BOOLEAN) :
        Run(search_results, selected_option, "preview", idx, "", netF,
            IdleSearchNet, netC, parseOk)

\* the deployment's credentials change while the process runs: the secret
\* bundle is set or removed, credentials.json written or deleted
CredentialsChange ==
    /\ \/ secret' \in CredStates \ {secret} /\ UNCHANGED credFile
       \/ credFile' \in CredStates \ {credFile} /\ UNCHANGED secret
    /\ UNCHANGED <<search_results, selected_option, builds, page>>

\* the runs of the script
Interaction ==
    \/ PageLoad
    \/ ChangeScope
    \/ SearchClick
    \/ PrepareDownload
    \/ LoadPreview

Next == CredentialsChange \/ Interaction

Spec == Init /\ [][Next]_vars

----------------------------------------------------------------------------
(* The same machine started in a session whose search returned one row, the
   row ranging over the generated MIME types and file names *)

\* one MIME type of every category
CategoryMimes ==
    {image_jpeg, pdf_mime, ms_excel, docx_mime, kw_text_plain, app_zip, gsheet_mime}

RowDescriptors ==
    {Descriptor("x1", <<"f">>, m) : m \in MimeTypes}
    \cup {Descriptor("x1", n, m) : n \in Names, m \in CategoryMimes}

\* the page has been loaded and "Invoice" searched; the provider answered both
\* runs, the folder query with a shared folder, the search with the one row.  The credentials come from the secret
\* store (the hosted deployment) or from credentials.json (a local run).
InitRow ==
    /\ \/ secret = "present" /\ credFile = "absent"
       \/ secret = "absent" /\ credFile = "present"
    /\ \E d \in RowDescriptors, f \in FolderCatalog :
       \E out \in {Script(NoneResults, AllFolders, "search", 0, "Invoice",
                          [ok |-> TRUE, files |-> <<f>>],
                          [ok |-> TRUE, files |-> <<d>>, exc |-> ""],
                          IdleFetchNet, TRUE)} :
          /\ page = out.page
          /\ search_results = out.results
          /\ selected_option = out.page.selected
          /\ builds = 1 + out.page.built

\* the credentials staying as they are
SpecRow == InitRow /\ [][Interaction]_vars

----------------------------------------------------------------------------
(* Properties *)

IsFetchCall(c) == c.api # "list"
FetchCalls(p) == SelectSeq(p.calls, IsFetchCall)
Shows(p, level, text) ==
    \E i \in 1..Len(p.messages) : p.messages[i] = Msg(level, text)
ShowsLevel(p, level) ==
    \E i \in 1..Len(p.messages) : p.messages[i].level = level

\* the substring rules for regular files, in the order of precedence
Precedence ==
    << [keys |-> {kw_image}, category |-> "image"],
       [keys |-> {kw_pdf}, category |-> "pdf"],
       [keys |-> {kw_spreadsheet, kw_excel}, category |-> "excel"],
       [keys |-> {kw_word, kw_document}, category |-> "word"],
       [keys |-> {kw_text_plain}, category |-> "text"] >>
Matches(m, i) == \E k \in Precedence[i].keys : Contains(m, k)
FirstMatch(m) ==
    IF \E i \in 1..Len(Precedence) : Matches(m, i)
    THEN Precedence[CHOOSE i \in 1..Len(Precedence) :
                        Matches(m, i) /\ \A j \in 1..(i - 1) : ~Matches(m, j)].category
    ELSE "other"

\* C1: a file whose MIME type lacks "application/vnd.google-apps" is never
\* exported; the one fetch request is get_media for that file, and a
\* successful fetch returns the bytes as served together with the category of
\* the first matching rule (image, pdf, spreadsheet/excel, word/document,
\* text/plain, else other)
C1_RegularFilesByPrecedence ==
    (page.fetch.called /\ ~Contains(page.file.mimeType, NATIVE)) =>
        /\ \A i \in 1..Len(page.calls) : page.calls[i].api # "export_media"
        /\ FetchCalls(page) \in {<<>>, <<GetMediaCall(page.file.id)>>}
        /\ page.fetch.dtype \in {"image", "pdf", "excel", "word", "text", "other", "error"}
        /\ page.fetch.dtype # "error" =>
              /\ FetchCalls(page) = <<GetMediaCall(page.file.id)>>
              /\ page.fetch.dtype = FirstMatch(page.file.mimeType)
              /\ page.fetch.content.kind = "bytes"
              /\ \A k \in 1..Len(page.fetch.content.data) :
                    page.fetch.content.data[k] =
                        RemoteChunk(GetMediaCall(page.file.id), k)
              /\ page.file.mimeType = ms_excel => page.fetch.dtype = "excel"
              /\ page.file.mimeType = kw_text_plain => page.fetch.dtype = "text"
              /\ page.file.mimeType = app_zip => page.fetch.dtype = "other"

C1_Witness ==
    /\ page.fetch.called
    /\ ~Contains(page.file.mimeType, NATIVE)
    /\ Contains(page.file.mimeType, kw_image)
    /\ Contains(page.file.mimeType, kw_pdf)
    /\ page.fetch.dtype = "image"

\* C2: a file whose MIME type contains "application/vnd.google-apps" is never
\* fetched with get_media; the one fetch request is export_media, to xlsx with
\* category "excel" when the type contains "spreadsheet", to PDF with category
\* "pdf" otherwise, whatever generic rule the type would also match
C2_NativeFilesExported ==
    (page.fetch.called /\ Contains(page.file.mimeType, NATIVE)) =>
        LET target == IF Contains(page.file.mimeType, kw_spreadsheet)
                      THEN XLSX_TARGET ELSE PDF_TARGET
            category == IF Contains(page.file.mimeType, kw_spreadsheet)
                        THEN "excel" ELSE "pdf"
        IN  /\ \A i \in 1..Len(page.calls) : page.calls[i].api # "get_media"
            /\ FetchCalls(page) \in {<<>>, <<ExportMediaCall(page.file.id, target)>>}
            /\ page.fetch.dtype \in {category, "error"}
            /\ page.fetch.dtype # "error" =>
                  FetchCalls(page) = <<ExportMediaCall(page.file.id, target)>>

C2_Witness ==
    /\ page.fetch.called
    /\ Contains(page.file.mimeType, NATIVE)
    /\ Contains(page.file.mimeType, kw_image)
    /\ page.fetch.dtype = "pdf"
    /\ FetchCalls(page) = <<ExportMediaCall(page.file.id, PDF_TARGET)>>

\* C3: whenever get_file_content returns category "error", what it returns in
\* place of the bytes is a non-empty message string
C3_ErrorCarriesMessage ==
    (page.fetch.called /\ page.fetch.dtype = "error") =>
        /\ page.fetch.content.kind = "str"
        /\ NonEmptyText(page.fetch.content.text)

\* C4: when the folder query fails, the run still draws the sidebar without a
\* scope selector, the search box and the results section
C4_FolderFailureTolerated ==
    page.folderListFailed =>
        /\ page.status = "ok"
        /\ page.sidebar = "warning"
        /\ page.target = NoneId
        /\ page.searchBox

\* C5: when the list call of search_drive fails, the run shows an "API Error"
\* message, search_drive returns the empty list, the session holds it, no row
\* is shown, the run ends normally, and the list call was made once
C5_SearchFailureIsEmptyResult ==
    page.searchListFailed =>
        /\ page.status = "ok"
        /\ \E e \in ExcTexts : Shows(page, "error", <<"API Error: ", e>>)
        /\ page.returned = <<>>
        /\ search_results = ListResults(<<>>)
        /\ page.shown = 0
        /\ Cardinality({i \in 1..Len(page.calls) :
                           page.calls[i].pageSize = SearchPageSize}) = 1

C5_Witness ==
    /\ page.searchListFailed
    /\ Truthy(page.previous)
    /\ search_results = ListResults(<<>>)

\* C6: the process builds the service handle at most once
C6_HandleBuiltOnce == builds <= 1

\* C7: a run uses the secret bundle and never opens credentials.json when the
\* bundle is present, opens the file when it is absent, and with neither
\* available reports the missing file, gets no handle and makes no remote call:
\* the folder list is empty, a search returns nothing, a fetch returns "error"
C7_CredentialOrder ==
    page.status # "none" =>
        /\ page.secretPresent => (page.usedSecret /\ ~page.fileRead)
        /\ ~page.secretPresent => (page.fileRead /\ ~page.usedSecret)
        /\ (page.secretPresent \/ page.fileFound) => page.built >= 1
        /\ (~page.secretPresent /\ ~page.fileFound) =>
              /\ page.built = 0
              /\ page.calls = <<>>
              /\ Shows(page, "error", <<"credentials.json not found!">>)
              /\ page.sidebar = "warning"
              /\ page.searched => page.returned = <<>>
              /\ page.fetch.called => page.fetch.dtype = "error"

C7_Witness ==
    /\ ~page.secretPresent
    /\ ~page.fileFound
    /\ page.fetch.called
    /\ page.calls = <<>>

\* C8: when "Load Preview" gets category "error", the page shows the carried
\* message as an error and not the "Preview not available" information
C8_PreviewShowsError ==
    (page.click = "preview" /\ page.fetch.called /\ page.fetch.dtype = "error") =>
        /\ Shows(page, "error", page.fetch.content.text)
        /\ ~ShowsLevel(page, "info")

\* the extension of each category, as the download path names it
ExtensionOf ==
    [c \in {"pdf", "excel", "word", "text", "image", "other"} |->
        CASE c = "pdf" -> e_pdf
          [] c = "excel" -> e_xlsx
          [] c = "word" -> e_docx
          [] c = "text" -> e_txt
          [] c = "image" -> e_jpg
          [] OTHER -> e_bin]

\* C9: "Prepare for Download" offers no save action for category "error";
\* otherwise it offers the file under its name when the name ends with the
\* category's extension and under name + extension when it does not, and
\* naming the offered name again gives the same name
C9_DownloadName ==
    (page.click = "download" /\ page.fetch.called) =>
        IF page.fetch.dtype = "error"
        THEN ~page.save.offered
        ELSE LET ext == ExtensionOf[page.fetch.dtype]
             IN  /\ page.save.offered
                 /\ page.save.data = page.fetch.content
                 /\ page.save.file_name =
                        IF EndsWith(page.file.name, ext)
                        THEN page.file.name
                        ELSE page.file.name \o ext
                 /\ FinalName(page.save.file_name, Extension(page.fetch.dtype))
                        = page.save.file_name

C9_Witness ==
    /\ page.click = "download"
    /\ page.save.offered
    /\ page.fetch.dtype = "excel"
    /\ EndsWith(page.file.name, e_xlsx)
    /\ page.save.file_name = page.file.name

\* C10: a run that executes a search leaves the session holding exactly the
\* list search_drive returned (the provider's answer, in its order, when the
\* list call succeeded); opening the page starts a session with the list
\* unset; every other run leaves the held list as it was
C10_ResultsOverwritten ==
    [][ /\ page'.searched =>
              /\ search_results' = ListResults(page'.returned)
              /\ (page'.built > 0 /\ ~page'.searchListFailed) =>
                    page'.returned = page'.provided
        /\ page'.click = "open" => search_results' = NoneResults
        /\ (~page'.searched /\ page'.click # "open") =>
              search_results' = search_results ]_vars

C10_Witness ==
    /\ page.searched
    /\ Truthy(page.previous)
    /\ Len(page.returned) = 2
    /\ page.returned # page.previous.files
    /\ search_results = ListResults(page.returned)

====
